---- MODULE Spec2Model ----
(***************************************************************************)
(* Model of query.go: the construction of GraphQL operation text from a    *)
(* Go type (the selection set), a variable map (the variable declarations) *)
(* and a list of options (operation name and operation directives).        *)
(*                                                                         *)
(* Text is a sequence of one-character strings, so that every space,       *)
(* brace, comma and parenthesis of the output is part of the model.         *)
(* A reflect.Type is a record: [kind |-> "scalar", name], [kind |-> "ptr" |*)
(* "slice" | "array", elem], or [kind |-> "struct", name, unmarshaler,     *)
(* fields], a field being [Name, ok, value, Anonymous, Type] where         *)
(* (value, ok) is the result of f.Tag.Lookup("graphql").                   *)
(***************************************************************************)
EXTENDS Integers, Sequences, FiniteSets, TLC

VARIABLES op, v, variables, keys, options, t, value, text, err

vars == <<op, v, variables, keys, options, t, value, text, err>>

\* ------------------------------------------------------------------ bounds

\* Fields of a parent record.
MaxFields == 2
\* Pointer/slice/array wrappers stacked on one type.
MaxWrap == 2
\* Entries of a variable map.
MaxVars == 2
\* Options of one call.
MaxOpts == 2
\* Pointer/slice/array wrappers stacked on the type of a variable.
MaxArgWrap == 3

\* ------------------------------------------------------------------- types

Scalar(n) == [kind |-> "scalar", name |-> n]
Ptr(e) == [kind |-> "ptr", elem |-> e]
Slice(e) == [kind |-> "slice", elem |-> e]
Array(e) == [kind |-> "array", elem |-> e]
Struct(n, u, fs) == [kind |-> "struct", name |-> n, unmarshaler |-> u, fields |-> fs]
Field(n, ok, val, anon, ty) ==
    [Name |-> n, ok |-> ok, value |-> val, Anonymous |-> anon, Type |-> ty]

\* ------------------------------------------------- selection set (query.go)

RECURSIVE writeQuery(_, _)
RECURSIVE writeFields(_, _)

\* reflect.PtrTo(t).Implements(jsonUnmarshaler)
implementsUnmarshalerNever(s) == FALSE
implementsUnmarshaler(s) == s.unmarshaler

\* inlineField := f.Anonymous && !ok
inlineField(f) == f.Anonymous /\ ~f.ok

\* What is written for the field before its type: the tag's value, else the
\* field's name, and nothing for an inlined field.
fieldName(f) ==
    IF inlineField(f) THEN <<>>
    ELSE IF f.ok THEN f.value
    ELSE f.Name

\* The loop over the fields i..NumField of struct s (i counts from 1 here, from
\* 0 in the code): a comma before every field but the first.
writeFields(s, i) ==
    IF i > Len(s.fields) THEN <<>>
    ELSE (IF i # 1 THEN <<",">> ELSE <<>>)
         \o fieldName(s.fields[i])
         \o writeQuery(s.fields[i].Type, inlineField(s.fields[i]))
         \o writeFields(s, i + 1)

\* What writeQuery(w, t, inline) appends to w.
writeQuery(ty, inline) ==
    CASE ty.kind \in {"ptr", "slice"} -> writeQuery(ty.elem, FALSE)
      [] ty.kind = "struct" ->
            IF implementsUnmarshaler(ty) THEN <<>>
            ELSE (IF ~inline THEN <<"{">> ELSE <<>>)
                 \o writeFields(ty, 1)
                 \o (IF ~inline THEN <<"}">> ELSE <<>>)
      [] OTHER -> <<>>

\* query(v): the root is never inlined.
query(ty) == writeQuery(ty, FALSE)

\* ------------------------------------------- variable declarations (query.go)

\* t.Name(), with the plain string type renamed to ID.
typeName(ty) ==
    IF ty.name = <<"s", "t", "r", "i", "n", "g">> THEN <<"I", "D">> ELSE ty.name

RECURSIVE writeArgumentType(_, _)

\* The bug of passing value on through a pointer.
writeArgumentTypePtrValue(ty, val) ==
    IF ty.kind = "ptr" THEN writeArgumentType(ty.elem, val)
    ELSE (CASE ty.kind \in {"slice", "array"} ->
                  <<"[">> \o writeArgumentType(ty.elem, TRUE) \o <<"]">>
            [] OTHER -> typeName(ty))
         \o (IF val THEN <<"!">> ELSE <<>>)

\* What writeArgumentType(w, t, value) appends to w.
writeArgumentType(ty, val) ==
    IF ty.kind = "ptr" THEN writeArgumentType(ty.elem, FALSE)
    ELSE (CASE ty.kind \in {"slice", "array"} ->
                  <<"[">> \o writeArgumentType(ty.elem, TRUE) \o <<"]">>
            [] OTHER -> typeName(ty))
         \o (IF val THEN <<"!">> ELSE <<>>)

\* The byte of a character of a variable name.
byte(c) ==
    CASE c = "B" -> 66
      [] c = "a" -> 97
      [] c = "b" -> 98

\* Go's a < b on strings: bytewise lexicographic.
RECURSIVE stringLess(_, _)
stringLess(a, b) ==
    IF a = <<>> THEN b # <<>>
    ELSE IF b = <<>> THEN FALSE
    ELSE IF Head(a) = Head(b) THEN stringLess(Tail(a), Tail(b))
    ELSE byte(Head(a)) < byte(Head(b))

RECURSIVE insertString(_, _)
insertString(x, s) ==
    IF s = <<>> THEN <<x>>
    ELSE IF stringLess(Head(s), x) THEN <<Head(s)>> \o insertString(x, Tail(s))
    ELSE <<x>> \o s

\* The bug of leaving the keys in the order the map yielded them.
sortStringsOmitted(s) == s

\* sort.Strings(keys)
RECURSIVE sortStrings(_)
sortStrings(s) ==
    IF s = <<>> THEN <<>> ELSE insertString(Head(s), sortStrings(Tail(s)))

\* The loop over the sorted keys: "$" k ":" type, and no comma.
RECURSIVE writeArguments(_, _)
writeArguments(vs, ks) ==
    IF ks = <<>> THEN <<>>
    ELSE <<"$">> \o Head(ks) \o <<":">>
         \o writeArgumentType(vs[Head(ks)], TRUE)
         \o writeArguments(vs, Tail(ks))

\* queryArguments(variables); ranged is the order in which
\* "for k := range variables" yields the keys, which Go leaves unspecified.
queryArguments(vs, ranged) == writeArguments(vs, sortStrings(ranged))

\* ------------------------------------------------------- options (query.go)

\* Option.Type() as constructOptions tells the options apart.
optionTypeOperationName == "operation_name"
OptionTypeOperationDirective == "operation_directive"

Option(ty, s) == [type |-> ty, str |-> s]

\* The error value nil.
nil == <<>>

\* strings.Join(a, " ")
RECURSIVE Join(_)
Join(a) ==
    IF a = <<>> THEN <<>>
    ELSE IF Len(a) = 1 THEN a[1]
    ELSE a[1] \o <<" ">> \o Join(Tail(a))

OperationDirectivesString(coo) ==
    LET operationDirectivesStr == Join(coo.operationDirectives)
    IN  IF operationDirectivesStr # <<>>
        THEN <<" ">> \o operationDirectivesStr \o <<" ">>
        ELSE <<>>

\* The loop of constructOptions from option i on, output being what the
\* options before i made.
RECURSIVE constructOptionsLoop(_, _, _)
constructOptionsLoop(opts, i, output) ==
    IF i > Len(opts) THEN [output EXCEPT !.err = nil]
    ELSE CASE opts[i].type = optionTypeOperationName ->
                constructOptionsLoop(opts, i + 1,
                    [output EXCEPT !.operationName = opts[i].str])
           [] opts[i].type = OptionTypeOperationDirective ->
                constructOptionsLoop(opts, i + 1,
                    [output EXCEPT !.operationDirectives = Append(@, opts[i].str)])
           [] OTHER ->
                [operationName |-> <<>>, operationDirectives |-> <<>>,
                 err |-> <<"invalid query option type: ", opts[i].type>>]

emptyOutput == [operationName |-> <<>>, operationDirectives |-> <<>>, err |-> nil]

\* The bug of skipping an option of an unknown type.
constructOptionsSkipping(opts) ==
    constructOptionsLoop(
        SelectSeq(opts, LAMBDA o : o.type \in {optionTypeOperationName,
                                               OptionTypeOperationDirective}),
        1, emptyOutput)

constructOptions(opts) == constructOptionsLoop(opts, 1, emptyOutput)

\* ------------------------------------------------- operations (query.go)

Result(s, e) == [text |-> s, err |-> e]

\* The bug of writing the keyword before an anonymous query.
constructQueryKeyword(ty, vs, ranged, opts) ==
    LET q == query(ty)
        optionsOutput == constructOptions(opts)
    IN  IF optionsOutput.err # nil THEN Result(<<>>, optionsOutput.err)
        ELSE IF Cardinality(DOMAIN vs) > 0
        THEN Result(<<"q", "u", "e", "r", "y", " ">> \o optionsOutput.operationName
                    \o <<"(">> \o queryArguments(vs, ranged) \o <<")">>
                    \o OperationDirectivesString(optionsOutput) \o q, nil)
        ELSE IF optionsOutput.operationName = <<>>
                /\ Len(optionsOutput.operationDirectives) = 0
        THEN Result(<<"q", "u", "e", "r", "y", " ">> \o q, nil)
        ELSE Result(<<"q", "u", "e", "r", "y", " ">> \o optionsOutput.operationName
                    \o OperationDirectivesString(optionsOutput) \o q, nil)

constructQuery(ty, vs, ranged, opts) ==
    LET q == query(ty)
        optionsOutput == constructOptions(opts)
    IN  IF optionsOutput.err # nil THEN Result(<<>>, optionsOutput.err)
        ELSE IF Cardinality(DOMAIN vs) > 0
        THEN Result(<<"q", "u", "e", "r", "y", " ">> \o optionsOutput.operationName
                    \o <<"(">> \o queryArguments(vs, ranged) \o <<")">>
                    \o OperationDirectivesString(optionsOutput) \o q, nil)
        ELSE IF optionsOutput.operationName = <<>>
                /\ Len(optionsOutput.operationDirectives) = 0
        THEN Result(q, nil)
        ELSE Result(<<"q", "u", "e", "r", "y", " ">> \o optionsOutput.operationName
                    \o OperationDirectivesString(optionsOutput) \o q, nil)

\* The bug of a space between the keyword and an anonymous mutation.
constructMutationSpace(ty, vs, ranged, opts) ==
    LET q == query(ty)
        optionsOutput == constructOptions(opts)
    IN  IF optionsOutput.err # nil THEN Result(<<>>, optionsOutput.err)
        ELSE IF Cardinality(DOMAIN vs) > 0
        THEN Result(<<"m", "u", "t", "a", "t", "i", "o", "n", " ">>
                    \o optionsOutput.operationName
                    \o <<"(">> \o queryArguments(vs, ranged) \o <<")">>
                    \o OperationDirectivesString(optionsOutput) \o q, nil)
        ELSE IF optionsOutput.operationName = <<>>
                /\ Len(optionsOutput.operationDirectives) = 0
        THEN Result(<<"m", "u", "t", "a", "t", "i", "o", "n", " ">> \o q, nil)
        ELSE Result(<<"m", "u", "t", "a", "t", "i", "o", "n", " ">>
                    \o optionsOutput.operationName
                    \o OperationDirectivesString(optionsOutput) \o q, nil)

constructMutation(ty, vs, ranged, opts) ==
    LET q == query(ty)
        optionsOutput == constructOptions(opts)
    IN  IF optionsOutput.err # nil THEN Result(<<>>, optionsOutput.err)
        ELSE IF Cardinality(DOMAIN vs) > 0
        THEN Result(<<"m", "u", "t", "a", "t", "i", "o", "n", " ">>
                    \o optionsOutput.operationName
                    \o <<"(">> \o queryArguments(vs, ranged) \o <<")">>
                    \o OperationDirectivesString(optionsOutput) \o q, nil)
        ELSE IF optionsOutput.operationName = <<>>
                /\ Len(optionsOutput.operationDirectives) = 0
        THEN Result(<<"m", "u", "t", "a", "t", "i", "o", "n">> \o q, nil)
        ELSE Result(<<"m", "u", "t", "a", "t", "i", "o", "n", " ">>
                    \o optionsOutput.operationName
                    \o OperationDirectivesString(optionsOutput) \o q, nil)

\* The bug of no space after the keyword of a subscription with variables.
constructSubscriptionNoSpace(ty, vs, ranged, opts) ==
    LET q == query(ty)
        optionsOutput == constructOptions(opts)
    IN  IF optionsOutput.err # nil THEN Result(<<>>, optionsOutput.err)
        ELSE IF Cardinality(DOMAIN vs) > 0
        THEN Result(<<"s", "u", "b", "s", "c", "r", "i", "p", "t", "i", "o", "n">>
                    \o optionsOutput.operationName
                    \o <<"(">> \o queryArguments(vs, ranged) \o <<")">>
                    \o OperationDirectivesString(optionsOutput) \o q, nil)
        ELSE IF optionsOutput.operationName = <<>>
                /\ Len(optionsOutput.operationDirectives) = 0
        THEN Result(<<"s", "u", "b", "s", "c", "r", "i", "p", "t", "i", "o", "n">>
                    \o q, nil)
        ELSE Result(<<"s", "u", "b", "s", "c", "r", "i", "p", "t", "i", "o", "n", " ">>
                    \o optionsOutput.operationName
                    \o OperationDirectivesString(optionsOutput) \o q, nil)

constructSubscription(ty, vs, ranged, opts) ==
    LET q == query(ty)
        optionsOutput == constructOptions(opts)
    IN  IF optionsOutput.err # nil THEN Result(<<>>, optionsOutput.err)
        ELSE IF Cardinality(DOMAIN vs) > 0
        THEN Result(<<"s", "u", "b", "s", "c", "r", "i", "p", "t", "i", "o", "n", " ">>
                    \o optionsOutput.operationName
                    \o <<"(">> \o queryArguments(vs, ranged) \o <<")">>
                    \o OperationDirectivesString(optionsOutput) \o q, nil)
        ELSE IF optionsOutput.operationName = <<>>
                /\ Len(optionsOutput.operationDirectives) = 0
        THEN Result(<<"s", "u", "b", "s", "c", "r", "i", "p", "t", "i", "o", "n">>
                    \o q, nil)
        ELSE Result(<<"s", "u", "b", "s", "c", "r", "i", "p", "t", "i", "o", "n", " ">>
                    \o optionsOutput.operationName
                    \o OperationDirectivesString(optionsOutput) \o q, nil)

\* ------------------------------------------------------------------ inputs

IntT == Scalar(<<"I", "n", "t">>)
StringT == Scalar(<<"s", "t", "r", "i", "n", "g">>)
BooleanT == Scalar(<<"B", "o", "o", "l", "e", "a", "n">>)

\* A record that decodes itself from one scalar (json.Unmarshaler), with fields.
Opaque ==
    Struct(<<"T", "i", "m", "e">>, TRUE,
           <<Field(<<"S">>, FALSE, <<>>, FALSE, IntT),
             Field(<<"N">>, FALSE, <<>>, FALSE, IntT)>>)
\* A record with no field.
Empty == Struct(<<"E", "m", "p", "t", "y">>, FALSE, <<>>)
\* A record with two fields, the second a tagged pointer.
Leaf ==
    Struct(<<"L", "e", "a", "f">>, FALSE,
           <<Field(<<"X">>, FALSE, <<>>, FALSE, IntT),
             Field(<<"Y">>, TRUE, <<"y">>, FALSE, Ptr(IntT))>>)
\* An unnamed struct type: t.Name() is empty.
Unnamed == Struct(<<>>, FALSE, <<Field(<<"X">>, FALSE, <<>>, FALSE, IntT)>>)

Base == {IntT, Opaque, Empty, Leaf}

WrapperKinds == {"ptr", "slice", "array"}

\* The stacks of at most n wrappers, outermost first.
Stacks(n) == UNION {[1..k -> WrapperKinds] : k \in 0..n}

RECURSIVE Wrap(_, _)
Wrap(s, b) ==
    IF s = <<>> THEN b
    ELSE CASE Head(s) = "ptr" -> Ptr(Wrap(Tail(s), b))
           [] Head(s) = "slice" -> Slice(Wrap(Tail(s), b))
           [] Head(s) = "array" -> Array(Wrap(Tail(s), b))

\* The name and the tag value of the field at position i of a parent record.
FieldNames == <<<<"A">>, <<"B">>, <<"C">>, <<"D">>>>
TagNames == <<<<"a">>, <<"b">>, <<"c">>, <<"d">>>>

\* The wrapper stacks of the types of fields and roots.
ShapeStacks == Stacks(MaxWrap)

\* What a field of a parent is chosen from, as (ok, Anonymous, Type): tagged or
\* not, embedded or named, of a base type (plain) or a wrapped one (wrapped).
WrappedTypes == {Wrap(s, b) : s \in ShapeStacks \ {<<>>}, b \in Base}
PlainChoices == BOOLEAN \X BOOLEAN \X Base
WrappedChoices == BOOLEAN \X BOOLEAN \X WrappedTypes

\* The field at position i made of the choice c.
FieldAt(i, c) == Field(FieldNames[i], c[1], TagNames[i], c[2], c[3])

\* The parent record whose fields are made of the choices cs.
Parent(cs) ==
    Struct(<<"P">>, FALSE, [i \in 1..Len(cs) |-> FieldAt(i, cs[i])])

\* n choices: w at position i, before and after at the others.
Around(n, i, before, w, after) ==
    [j \in 1..n |-> IF j < i THEN before[j] ELSE IF j = i THEN w ELSE after[j]]

\* The shapes given to the three operations.
RootShapes ==
    Base \cup {Ptr(Leaf), Slice(Leaf),
               Parent(<<<<FALSE, FALSE, IntT>>, <<FALSE, TRUE, Leaf>>>>)}

\* Variable names and the types of their values.
VarNames == {<<"B">>, <<"a">>, <<"a", "b">>}
VarTypes == {StringT, Ptr(BooleanT)}
VarMaps ==
    UNION {[ks -> VarTypes] : ks \in {k \in SUBSET VarNames : Cardinality(k) <= MaxVars}}

\* The orders in which a map may yield its keys: every order.
Ranges(vs) ==
    {r \in [1..Cardinality(DOMAIN vs) -> DOMAIN vs] :
        \A i, j \in DOMAIN r : i # j => r[i] # r[j]}

\* The types given to writeArgumentType.
ArgTypes == {Wrap(s, b) : s \in Stacks(MaxArgWrap), b \in {IntT, StringT, Leaf, Unnamed}}

\* Options: a name, the empty name, two directives, and an option of a type
\* constructOptions does not know.
Options ==
    {Option(optionTypeOperationName, <<"Q">>),
     Option(optionTypeOperationName, <<>>),
     Option(OptionTypeOperationDirective, <<"@", "a">>),
     Option(OptionTypeOperationDirective, <<"@", "b">>),
     Option("other", <<"x">>)}
OptionLists == UNION {[1..n -> Options] : n \in 0..MaxOpts}

\* ------------------------------------------------------------ state machine

NoType == [kind |-> "none"]

\* No call made yet.
Init ==
    /\ op = "none"
    /\ v = NoType
    /\ variables = <<>>
    /\ keys = <<>>
    /\ options = <<>>
    /\ t = NoType
    /\ value = FALSE
    /\ text = <<>>
    /\ err = nil

\* query(v) on the shape ty
QueryOf(ty) ==
    /\ op' = "query"
    /\ v' = ty
    /\ text' = query(ty)
    /\ UNCHANGED <<variables, keys, options, t, value, err>>

\* query(v), on a parent of plain fields under root wrappers, on a parent with
\* one field of a wrapped type, or on a base type under root wrappers (a
\* scalar is no record).
Query ==
    /\ op = "none"
    /\ \/ \E n \in 0..MaxFields :
            \E cs \in [1..n -> PlainChoices], s \in ShapeStacks :
                QueryOf(Wrap(s, Parent(cs)))
       \/ \E n \in 1..MaxFields :
            \E i \in 1..n :
                \E before \in [1..(i - 1) -> PlainChoices],
                   w \in WrappedChoices,
                   after \in [(i + 1)..n -> PlainChoices] :
                    QueryOf(Parent(Around(n, i, before, w, after)))
       \/ \E s \in ShapeStacks, b \in Base :
            QueryOf(Wrap(s, b))

\* writeArgumentType(w, t, value) on an empty w
WriteArgumentType ==
    /\ op = "none"
    /\ \E ty \in ArgTypes, val \in BOOLEAN :
        /\ op' = "writeArgumentType"
        /\ t' = ty
        /\ value' = val
        /\ text' = writeArgumentType(ty, val)
    /\ UNCHANGED <<v, variables, keys, options, err>>

\* queryArguments(variables), the map yielding its keys in the order keys
QueryArguments ==
    /\ op = "none"
    /\ \E vs \in VarMaps :
        \E ranged \in Ranges(vs) :
            /\ op' = "queryArguments"
            /\ variables' = vs
            /\ keys' = ranged
            /\ text' = queryArguments(vs, ranged)
    /\ UNCHANGED <<v, options, t, value, err>>

\* constructQuery(v, variables, options...)
ConstructQuery ==
    /\ op = "none"
    /\ \E ty \in RootShapes, vs \in VarMaps, opts \in OptionLists :
        \E ranged \in Ranges(vs) :
            /\ op' = "constructQuery"
            /\ v' = ty
            /\ variables' = vs
            /\ keys' = ranged
            /\ options' = opts
            /\ text' = constructQuery(ty, vs, ranged, opts).text
            /\ err' = constructQuery(ty, vs, ranged, opts).err
    /\ UNCHANGED <<t, value>>

\* constructMutation(v, variables, options...)
ConstructMutation ==
    /\ op = "none"
    /\ \E ty \in RootShapes, vs \in VarMaps, opts \in OptionLists :
        \E ranged \in Ranges(vs) :
            /\ op' = "constructMutation"
            /\ v' = ty
            /\ variables' = vs
            /\ keys' = ranged
            /\ options' = opts
            /\ text' = constructMutation(ty, vs, ranged, opts).text
            /\ err' = constructMutation(ty, vs, ranged, opts).err
    /\ UNCHANGED <<t, value>>

\* constructSubscription(v, variables, options...)
ConstructSubscription ==
    /\ op = "none"
    /\ \E ty \in RootShapes, vs \in VarMaps, opts \in OptionLists :
        \E ranged \in Ranges(vs) :
            /\ op' = "constructSubscription"
            /\ v' = ty
            /\ variables' = vs
            /\ keys' = ranged
            /\ options' = opts
            /\ text' = constructSubscription(ty, vs, ranged, opts).text
            /\ err' = constructSubscription(ty, vs, ranged, opts).err
    /\ UNCHANGED <<t, value>>

Next ==
    \/ Query
    \/ WriteArgumentType
    \/ QueryArguments
    \/ ConstructQuery
    \/ ConstructMutation
    \/ ConstructSubscription

Spec == Init /\ [][Next]_vars

\* ------------------------------------------------------------------ claims

ConstructOps == {"constructQuery", "constructMutation", "constructSubscription"}

Keyword(o) ==
    CASE o = "constructQuery" -> <<"q", "u", "e", "r", "y">>
      [] o = "constructMutation" -> <<"m", "u", "t", "a", "t", "i", "o", "n">>
      [] o = "constructSubscription" ->
            <<"s", "u", "b", "s", "c", "r", "i", "p", "t", "i", "o", "n">>

ValidOption(o) == o.type \in {optionTypeOperationName, OptionTypeOperationDirective}
AllValid(opts) == \A i \in DOMAIN opts : ValidOption(opts[i])

\* The operation name a list of valid options yields: that of the last name option.
NameOf(opts) ==
    LET named == {i \in DOMAIN opts : opts[i].type = optionTypeOperationName}
    IN  IF named = {} THEN <<>>
        ELSE opts[CHOOSE i \in named : \A j \in named : j <= i].str

\* The directives a list of options yields, in order.
RECURSIVE DirectivesOf(_)
DirectivesOf(opts) ==
    IF opts = <<>> THEN <<>>
    ELSE (IF Head(opts).type = OptionTypeOperationDirective
          THEN <<Head(opts).str>> ELSE <<>>) \o DirectivesOf(Tail(opts))

\* The directive text: the directives joined by one space between one leading
\* and one trailing space, and nothing when there is none.
RECURSIVE Spaced(_)
Spaced(ds) == IF ds = <<>> THEN <<>> ELSE Head(ds) \o <<" ">> \o Spaced(Tail(ds))
DirectiveText(opts) ==
    IF DirectivesOf(opts) = <<>> THEN <<>> ELSE <<" ">> \o Spaced(DirectivesOf(opts))

\* Options that yield an empty operation name and no directive.
Anonymous(opts) ==
    AllValid(opts) /\ NameOf(opts) = <<>> /\ DirectivesOf(opts) = <<>>

\* The reference recursion of the type signature.
RECURSIVE sig(_, _)
sig(ty, r) ==
    CASE ty.kind = "ptr" -> sig(ty.elem, FALSE)
      [] ty.kind \in {"slice", "array"} ->
            <<"[">> \o sig(ty.elem, TRUE) \o <<"]">> \o (IF r THEN <<"!">> ELSE <<>>)
      [] OTHER ->
            (IF ty = StringT THEN <<"I", "D">> ELSE ty.name)
            \o (IF r THEN <<"!">> ELSE <<>>)

\* The names of a variable map in strictly ascending order.
Ascending(vs) ==
    CHOOSE s \in Ranges(vs) :
        \A i, j \in DOMAIN s : i < j => stringLess(s[i], s[j])

\* The declarations of the names ks, one after the other with nothing between.
RECURSIVE Declarations(_, _)
Declarations(vs, ks) ==
    IF ks = <<>> THEN <<>>
    ELSE <<"$">> \o Head(ks) \o <<":">> \o sig(vs[Head(ks)], TRUE)
         \o Declarations(vs, Tail(ks))

\* A type with its pointer, slice and array wrappers taken off.
RECURSIVE Strip(_)
Strip(ty) == IF ty.kind \in WrapperKinds THEN Strip(ty.elem) ELSE ty

\* The type an embedded field of type T or *T embeds.
Deref(ty) == IF ty.kind = "ptr" THEN ty.elem ELSE ty

IsRecord(ty) == ty.kind = "struct"
IsParent(ty) == ty.kind = "struct" /\ ~ty.unmarshaler

\* Record p with the type of its field i replaced by ty.
WithFieldType(p, i, ty) == [p EXCEPT !.fields[i].Type = ty]

\* Record p with the fields of record r written in place of its field i.
Flatten(p, i, r) ==
    [p EXCEPT !.fields =
        SubSeq(p.fields, 1, i - 1) \o r.fields \o SubSeq(p.fields, i + 1, Len(p.fields))]

C2_KeywordThenSelection ==
    (op \in {"constructMutation", "constructSubscription"} /\ IsRecord(v)
     /\ DOMAIN variables = {} /\ Anonymous(options))
        => (err = nil /\ text = Keyword(op) \o query(v))

C2_Witness ==
    /\ op = "constructMutation"
    /\ v = Leaf
    /\ DOMAIN variables = {}
    /\ options = <<>>
    /\ text = <<"m", "u", "t", "a", "t", "i", "o", "n", "{", "X", ",", "y", "}">>

\* C3: with a non-empty variable map and valid options, each of the three
\* operations returns keyword, one space, the operation name (possibly empty),
\* "(", the declarations in ascending order of name, ")", the directive text
\* and the selection set, whether or not a name or directives were given.
C3_WithVariables ==
    (op \in ConstructOps /\ DOMAIN variables # {} /\ AllValid(options))
        => /\ err = nil
           /\ text = Keyword(op) \o <<" ">> \o NameOf(options)
                     \o <<"(">> \o Declarations(variables, Ascending(variables)) \o <<")">>
                     \o DirectiveText(options) \o query(v)

C3_Witness ==
    /\ op = "constructSubscription"
    /\ v = Leaf
    /\ variables = (<<"a">> :> StringT)
    /\ options = <<>>
    /\ text = <<"s", "u", "b", "s", "c", "r", "i", "p", "t", "i", "o", "n", " ",
                "(", "$", "a", ":", "I", "D", "!", ")", "{", "X", ",", "y", "}">>

\* C4: when any option of the list, at any position, is of neither known type,
\* each of the three operations returns the invalid-option error and the empty
\* text, whatever the shape, the variables and the other options.
C4_InvalidOption ==
    (op \in ConstructOps /\ ~AllValid(options))
        => (err # nil /\ err[1] = "invalid query option type: " /\ text = <<>>)

C4_Witness ==
    /\ op = "constructQuery"
    /\ v = Leaf
    /\ DOMAIN variables # {}
    /\ options = <<Option(OptionTypeOperationDirective, <<"@", "a">>),
                   Option("other", <<"x">>)>>
    /\ err = <<"invalid query option type: ", "other">>
    /\ text = <<>>

\* C5: the variable block depends only on the map, not on the order in which
\* the map yields its keys, and is the declarations "$" name ":" signature in
\* strictly ascending order of name with nothing between them.
C5_SortedDeclarations ==
    op = "queryArguments"
        => /\ \A r \in Ranges(variables) : queryArguments(variables, r) = text
           /\ text = Declarations(variables, Ascending(variables))

C5_Witness ==
    /\ op = "queryArguments"
    /\ variables = (<<"a", "b">> :> Ptr(BooleanT)) @@ (<<"B">> :> StringT)
    /\ keys = <<<<"a", "b">>, <<"B">>>>
    /\ text = <<"$", "B", ":", "I", "D", "!",
                "$", "a", "b", ":", "B", "o", "o", "l", "e", "a", "n">>

\* C6, for a record of one or more fields that is no opaque scalar: an
\* embedded field with no name override whose type is that record, or a
\* pointer to it, yields the selection text of the parent with the fields of
\* the record written directly at the same position.
C6_EmbeddingIsFlattening ==
    (op = "query" /\ IsParent(v))
        => \A i \in DOMAIN v.fields :
              (v.fields[i].Anonymous /\ ~v.fields[i].ok
               /\ IsParent(Deref(v.fields[i].Type))
               /\ Len(Deref(v.fields[i].Type).fields) >= 1)
                  => text = query(Flatten(v, i, Deref(v.fields[i].Type)))

\* C7: a named field whose type, directly or under pointer and list wrappers,
\* is a record with the opaque-scalar marker contributes its display name
\* alone: the text is that of the same parent with a scalar in the place of
\* the record, and a parent of this one field is "{" name "}".
C7_OpaqueScalar ==
    (op = "query" /\ IsParent(v))
        => \A i \in DOMAIN v.fields :
              (~(v.fields[i].Anonymous /\ ~v.fields[i].ok)
               /\ IsRecord(Strip(v.fields[i].Type))
               /\ Strip(v.fields[i].Type).unmarshaler)
                  => /\ text = query(WithFieldType(v, i, IntT))
                     /\ Len(v.fields) = 1
                            => text = <<"{">>
                                      \o (IF v.fields[i].ok THEN v.fields[i].value
                                          ELSE v.fields[i].Name)
                                      \o <<"}">>

C7_Witness ==
    /\ op = "query"
    /\ v = Parent(<<<<FALSE, FALSE, Slice(Opaque)>>>>)
    /\ text = <<"{", "A", "}">>

\* C8: the type signature is the reference recursion; it ends in "!" exactly
\* when required is true and the type is not a pointer, and the element of a
\* list is marked "!" exactly when the element type is not a pointer.
C8_TypeSignature ==
    op = "writeArgumentType"
        => /\ text = sig(t, value)
           /\ (text # <<>> /\ text[Len(text)] = "!") <=> (value /\ t.kind # "ptr")
           /\ t.kind \in {"slice", "array"}
                => LET close == Len(text) - (IF value THEN 1 ELSE 0)
                   IN  /\ text[close] = "]"
                       /\ text[close - 1] = "!" <=> t.elem.kind # "ptr"

C8_Witness ==
    /\ op = "writeArgumentType"
    /\ t = Slice(Ptr(StringT))
    /\ value = TRUE
    /\ text = <<"[", "I", "D", "]", "!">>

\* C9: when the root shape without its wrappers is not a record, the three
\* operations return an error and no text, and the selection-set serializer
\* does not return the empty text.
C9_NonRecordRootFails ==
    ~IsRecord(Strip(v))
        => /\ op \in ConstructOps => (err # nil /\ text = <<>>)
           /\ op = "query" => text # <<>>

\* C10: under any stack of pointer, slice and array wrappers a record selects
\* what it selects bare, as the type of a field and at the root.
C10_WrapperTransparency ==
    op = "query"
        => /\ IsRecord(Strip(v)) => text = query(Strip(v))
           /\ IsParent(v)
                => \A i \in DOMAIN v.fields :
                      IsRecord(Strip(v.fields[i].Type))
                          => text = query(WithFieldType(v, i, Strip(v.fields[i].Type)))

====
